---- MODULE Spec2Model ----
(***************************************************************************)
(* Zylo interpreter front-end: lexer (token table, escape transforms,      *)
(* extract_identifier scanner, tokenize driver), memory tracker, console   *)
(* utilities and entry point.                                              *)
(*                                                                         *)
(* A C++ std::string is a sequence of one-character strings; Ord gives the *)
(* character's code where the source compares or adds characters.          *)
(***************************************************************************)
EXTENDS Integers, Sequences, FiniteSets, TLC

VARIABLES
    \* tokenize / extract_identifier
    src, line, prev, lastid, lexemes, tokens, thrown, pc,
    \* determine_token_type applied to one lexeme
    clexeme, ctoken, cpc,
    \* process_escape_characters / unprocess_escape_characters
    estr0, estr, eops,
    \* zylo::Memory
    pointers, live, returned, lastcount, ncreated, cleared, mop,
    \* main / zylo_terminal
    stdin0, stdin, events, userCommand, initret, mpc, exitcode

lexvars == <<src, line, prev, lastid, lexemes, tokens, thrown, pc>>
clsvars == <<clexeme, ctoken, cpc>>
escvars == <<estr0, estr, eops>>
memvars == <<pointers, live, returned, lastcount, ncreated, cleared, mop>>
mainvars == <<stdin0, stdin, events, userCommand, initret, mpc, exitcode>>
vars == <<lexvars, clsvars, escvars, memvars, mainvars>>

(***************************************************************************)
(* Bounds of the exploration.                                              *)
(***************************************************************************)
MaxLen == 3
MaxLexeme == 2
MaxEsc == 4
MaxPointers == 3
NumAddr == 4
MaxInput == 4
MaxOps == 2

(***************************************************************************)
(* Characters.                                                             *)
(***************************************************************************)
NUL == "NUL"
NL == "\n"
TAB == "\t"
CR == "\r"
BSL == "\\"
DQ == "\""
GRAVE == "GRAVE"

Printable ==
    << " ", "!", DQ, "#", "$", "%", "&", "'", "(", ")", "*", "+", ",", "-", ".", "/",
       "0", "1", "2", "3", "4", "5", "6", "7", "8", "9", ":", ";", "<", "=", ">", "?",
       "@", "A", "B", "C", "D", "E", "F", "G", "H", "I", "J", "K", "L", "M", "N", "O",
       "P", "Q", "R", "S", "T", "U", "V", "W", "X", "Y", "Z", "[", BSL, "]", "^", "_",
       GRAVE, "a", "b", "c", "d", "e", "f", "g", "h", "i", "j", "k", "l", "m", "n", "o",
       "p", "q", "r", "s", "t", "u", "v", "w", "x", "y", "z", "{", "|", "}", "~" >>

Chars == {Printable[i] : i \in DOMAIN Printable} \cup {NUL, NL, TAB, CR}

OrdTable ==
    [c \in Chars |->
        CASE c = NUL -> 0
          [] c = TAB -> 9
          [] c = NL  -> 10
          [] c = CR  -> 13
          [] OTHER   -> 31 + (CHOOSE i \in DOMAIN Printable : Printable[i] = c)]

Ord(c) == OrdTable[c]

\* All sequences over S of length at most n.
RECURSIVE SeqsUpTo(_, _)
SeqsUpTo(S, n) ==
    IF n = 0 THEN {<<>>}
    ELSE LET shorter == SeqsUpTo(S, n - 1)
         IN  shorter \cup {Append(s, c) : s \in {t \in shorter : Len(t) = n - 1}, c \in S}

Contains(s, c) == \E i \in DOMAIN s : s[i] = c

\* t occurs in s as a contiguous block
IsInfix(t, s) ==
    \E k \in 0..(Len(s) - Len(t)) : SubSeq(s, k + 1, k + Len(t)) = t

(***************************************************************************)
(* TokenType and the token-spelling table.                                 *)
(***************************************************************************)
\* The enumerators with EndOfFile declared where CloseBracket belongs, so
\* that the rows of the table no longer line up with the ordinals.
TokenTypesEofMisplaced ==
    << "Number", "Bool", "String", "Const", "Var", "Func", "EndStatement", "If",
       "Else", "While", "Equals", "UnaryOperator", "BinaryOperator", "OpenParen",
       "CloseParen", "OpenBracket", "EndOfFile", "Identifier", "Comment",
       "EndOfLine", "CloseBracket", "Invalid" >>

\* enum class TokenType, in declaration order
TokenTypes ==
    << "Number", "Bool", "String", "Const", "Var", "Func", "EndStatement", "If",
       "Else", "While", "Equals", "UnaryOperator", "BinaryOperator", "OpenParen",
       "CloseParen", "OpenBracket", "CloseBracket", "Identifier", "Comment",
       "EndOfLine", "EndOfFile", "Invalid" >>

\* static_cast<int>(TokenType::X)
TypeIndex(t) == (CHOOSE i \in DOMAIN TokenTypes : TokenTypes[i] = t) - 1

\* A row of the table that lists `-` among the unary operators as well.
UnaryOperatorRowWithMinus == << <<"+","+">>, <<"-","-">>, <<"!">>, <<"-">> >>

\* tk_identifiers row 11 (UnaryOperator)
UnaryOperatorRow == << <<"+","+">>, <<"-","-">>, <<"!">> >>

\* A row of binary operators that lists `=` too, which the Equals row spells.
BinaryOperatorRowWithEquals ==
    << <<"+">>, <<"-">>, <<"*">>, <<"/">>, <<"%">>, <<"=","=">>, <<"!","=">>,
       <<">">>, <<"<">>, <<">","=">>, <<"<","=">>, <<"*","*">>, <<"&","&">>,
       <<"|","|">>, <<"=">> >>

\* tk_identifiers row 12 (BinaryOperator)
BinaryOperatorRow ==
    << <<"+">>, <<"-">>, <<"*">>, <<"/">>, <<"%">>, <<"=","=">>, <<"!","=">>,
       <<">">>, <<"<">>, <<">","=">>, <<"<","=">>, <<"*","*">>, <<"&","&">>,
       <<"|","|">> >>

\* The initializer rows of tk_identifiers, in source order (20 rows); each
\* row is the vector `indentifiers` of one TokenIdentifier.
TableRows ==
    << <<>>,                                   \* Number
       <<>>,                                   \* Bool
       <<>>,                                   \* String
       << <<"c","o","n","s","t">> >>,          \* Const
       << <<"z","y","l","o">> >>,              \* Var
       << <<"f","u","n","c">> >>,              \* Func
       << <<"o","v","e","r">> >>,              \* EndStatement
       << <<"i","f">> >>,                      \* If
       << <<"e","l","s","e">> >>,              \* Else
       << <<"w","h","i","l","e">> >>,          \* While
       << <<"=">> >>,                          \* Equals
       UnaryOperatorRow,                       \* UnaryOperator
       BinaryOperatorRow,                      \* BinaryOperator
       << <<"(">> >>,                          \* OpenParen
       << <<")">> >>,                          \* CloseParen
       << <<"[">> >>,                          \* OpenBracket
       << <<"]">> >>,                          \* CloseBracket
       <<>>,                                   \* Identifier
       << <<"#">> >>,                          \* Comment
       << <<NL>>, <<CR>>, <<";">> >> >>        \* EndOfLine

\* tk_identifiers[static_cast<int>(TokenType::Invalid)]: one slot per type
\* before Invalid, indexed by the type's ordinal; a slot without an
\* initializer holds an empty vector.
tk_identifiers ==
    [i \in 0..(TypeIndex("Invalid") - 1) |->
        IF i + 1 \in DOMAIN TableRows THEN TableRows[i + 1] ELSE <<>>]

(***************************************************************************)
(* extract_identifier                                                      *)
(***************************************************************************)
skpchrs == <<" ", TAB, NUL>>
nonchainablechrs == <<"(", ")", "[", "]">>
DefaultSeparator == " "

isskpchr(chr) == \E i \in DOMAIN skpchrs : skpchrs[i] = chr
isunchainablechr(chr) == \E i \in DOMAIN nonchainablechrs : nonchainablechrs[i] = chr

determineidtype(chr) ==
    IF \/ chr = "_"
       \/ (Ord(chr) >= Ord("A") /\ Ord(chr) <= Ord("Z"))
       \/ (Ord(chr) >= Ord("a") /\ Ord(chr) <= Ord("z"))
    THEN "Alpha"
    ELSE IF chr = "." \/ chr = "-" \/ (Ord(chr) >= Ord("0") /\ Ord(chr) <= Ord("9"))
         THEN "Numeric"
         ELSE "Symbolic"

\* The locals of extract_identifier before the loop; brk records a `break`.
ScanStart ==
    [idtype |-> "Unknown", nextid |-> <<>>, nextidend |-> 0,
     isstr |-> FALSE, iscomment |-> FALSE, brk |-> FALSE]

\* nextid[0]; std::string yields the terminating NUL at index size()
FirstOf(s) == IF Len(s) = 0 THEN NUL ELSE s[1]

\* if (iscomment) { nextidend++; if (chr == '\n') break; continue; }
CommentStep(st, chr) ==
    [st EXCEPT !.nextidend = @ + 1, !.brk = (chr = NL)]

\* The unchainable branch that also consumes a bracket met after other
\* characters, so that the next call no longer finds it.
UnchainableStepSwallow(st, chr) ==
    IF st.nextidend = 0
    THEN [st EXCEPT !.nextidend = @ + 1, !.nextid = Append(@, chr), !.brk = TRUE]
    ELSE [st EXCEPT !.nextidend = @ + 1, !.brk = TRUE]

\* The unchainable branch without the append of the character.
UnchainableStepNoAppend(st, chr) ==
    IF st.nextidend = 0
    THEN [st EXCEPT !.nextidend = @ + 1, !.brk = TRUE]
    ELSE [st EXCEPT !.brk = TRUE]

\* if (isunchainablechr(chr)) { if (nextidend == 0) {...} break; }
UnchainableStep(st, chr) ==
    IF st.nextidend = 0
    THEN [st EXCEPT !.nextidend = @ + 1, !.nextid = Append(@, chr), !.brk = TRUE]
    ELSE [st EXCEPT !.brk = TRUE]

\* The classification with the accumulating step advancing the index as the
\* string-capture branch does (`nextidend++; nextidend += chr;`).
ClassifyStepAddsChr(st, chr) ==
    LET currentidtype == determineidtype(chr)
        take == [st EXCEPT !.nextid = Append(@, chr), !.nextidend = @ + 1 + Ord(chr)]
    IN  IF st.idtype = "Unknown"
        THEN [take EXCEPT !.idtype = currentidtype]
        ELSE IF st.idtype = "Numeric" /\ FirstOf(st.nextid) = "-" /\ chr = "-"
        THEN [take EXCEPT !.brk = TRUE]
        ELSE IF /\ st.idtype = "Numeric"
                /\ Len(st.nextid) > 0
                /\ (chr = "-" \/ currentidtype # "Numeric")
        THEN [st EXCEPT !.brk = TRUE]
        ELSE IF \/ (st.idtype = "Symbolic" /\ currentidtype # "Symbolic")
                \/ (st.idtype # "Symbolic" /\ (currentidtype = "Symbolic" \/ chr = "-"))
        THEN [st EXCEPT !.brk = TRUE]
        ELSE take

\* Lines 196-218 and 222: classification of chr against the running idtype.
ClassifyStep(st, chr) ==
    LET currentidtype == determineidtype(chr)
        take == [st EXCEPT !.nextid = Append(@, chr), !.nextidend = @ + 1]
    IN  IF st.idtype = "Unknown"
        THEN [take EXCEPT !.idtype = currentidtype]
        ELSE IF st.idtype = "Numeric" /\ FirstOf(st.nextid) = "-" /\ chr = "-"
        THEN [take EXCEPT !.brk = TRUE]
        ELSE IF /\ st.idtype = "Numeric"
                /\ Len(st.nextid) > 0
                /\ (chr = "-" \/ currentidtype # "Numeric")
        THEN [st EXCEPT !.brk = TRUE]
        ELSE IF \/ (st.idtype = "Symbolic" /\ currentidtype # "Symbolic")
                \/ (st.idtype # "Symbolic" /\ (currentidtype = "Symbolic" \/ chr = "-"))
        THEN [st EXCEPT !.brk = TRUE]
        ELSE take

\* Lines 167-219: the branch taken when isskpchr(chr) || isstr.
CaptureStep(st, chr) ==
    IF chr = DQ /\ st.isstr
    THEN [st EXCEPT !.nextidend = @ + 1, !.brk = TRUE]
    ELSE IF chr = DQ
    THEN \* isstr = true; then nextidend++; nextidend += chr; continue
         [st EXCEPT !.isstr = TRUE, !.nextidend = @ + 1 + Ord(chr)]
    ELSE IF chr = "#"
    THEN IF Len(st.nextid) > 0
         THEN [st EXCEPT !.iscomment = TRUE, !.brk = TRUE]
         ELSE [st EXCEPT !.iscomment = TRUE, !.nextidend = @ + 1]
    ELSE IF st.isstr
    THEN [st EXCEPT !.nextidend = @ + 1 + Ord(chr)]
    ELSE ClassifyStep(st, chr)

\* The loop body without the final `nextidend++` for a character that is
\* stepped over: such a character is never removed from the line.
ScanCharNoAdvance(st, chr) ==
    IF st.iscomment
    THEN [st EXCEPT !.nextidend = @ + 1, !.brk = (chr = NL)]
    ELSE IF chr \in {"(", ")", "[", "]"}
    THEN IF st.nextidend = 0
         THEN [st EXCEPT !.nextidend = @ + 1, !.nextid = Append(@, chr), !.brk = TRUE]
         ELSE [st EXCEPT !.brk = TRUE]
    ELSE IF chr \in {" ", TAB, NUL}
    THEN [st EXCEPT !.nextid = Append(@, chr), !.nextidend = @ + 1]
    ELSE IF Len(st.nextid) > 0 THEN [st EXCEPT !.brk = TRUE]
    ELSE st

\* One iteration of `for (auto chr : line)`.
ScanChar(st, chr) ==
    IF st.iscomment THEN CommentStep(st, chr)
    ELSE IF isunchainablechr(chr) THEN UnchainableStep(st, chr)
    ELSE IF isskpchr(chr) \/ st.isstr THEN CaptureStep(st, chr)
    ELSE IF Len(st.nextid) > 0 THEN [st EXCEPT !.brk = TRUE]
    ELSE [st EXCEPT !.nextidend = @ + 1]

RECURSIVE ScanLoop(_, _, _)
ScanLoop(ln, i, st) ==
    IF i > Len(ln) \/ st.brk THEN st
    ELSE ScanLoop(ln, i + 1, ScanChar(st, ln[i]))

\* std::string::substr(pos): throws std::out_of_range when pos > size()
Substr(s, pos) ==
    IF pos > Len(s) THEN [throws |-> TRUE, value |-> s]
    ELSE [throws |-> FALSE, value |-> SubSeq(s, pos + 1, Len(s))]

\* extract_identifier(line, separator): the returned identifier, the new
\* value of line, and whether line.substr threw (line is then unassigned).
extract_identifier(ln, separator) ==
    LET st == ScanLoop(ln, 1, ScanStart)
        rest == Substr(ln, st.nextidend)
    IN  [id |-> st.nextid, line |-> rest.value, thrown |-> rest.throws,
         nextidend |-> st.nextidend]

(***************************************************************************)
(* determine_token_type and tokenize (declared in lexer.hxx).              *)
(***************************************************************************)
Token(type, value) == [type |-> type, value |-> value]

IsDigit(c) == Ord(c) >= Ord("0") /\ Ord(c) <= Ord("9")
IsLetter(c) ==
    \/ (Ord(c) >= Ord("A") /\ Ord(c) <= Ord("Z"))
    \/ (Ord(c) >= Ord("a") /\ Ord(c) <= Ord("z"))

InRow(row, lexeme) == \E k \in DOMAIN row : row[k] = lexeme

\* The rows of the table that spell the lexeme.
MatchingRows(lexeme) ==
    {i \in DOMAIN tk_identifiers : InRow(tk_identifiers[i], lexeme)}

\* optional leading `-`, digits, optional single `.`
IsNumericLiteral(lexeme) ==
    LET body == IF FirstOf(lexeme) = "-" THEN Tail(lexeme) ELSE lexeme
    IN  /\ \A k \in DOMAIN body : IsDigit(body[k]) \/ body[k] = "."
        /\ \E k \in DOMAIN body : IsDigit(body[k])
        /\ Cardinality({k \in DOMAIN body : body[k] = "."}) <= 1

IsBoolLiteral(lexeme) ==
    lexeme \in {<<"t","r","u","e">>, <<"f","a","l","s","e">>}

\* Alpha-leading run of letters, digits and underscore
IsIdentifierShape(lexeme) ==
    /\ Len(lexeme) > 0
    /\ determineidtype(lexeme[1]) = "Alpha"
    /\ \A k \in DOMAIN lexeme :
          IsLetter(lexeme[k]) \/ IsDigit(lexeme[k]) \/ lexeme[k] = "_"

determine_token_type(next_id) ==
    IF MatchingRows(next_id) # {}
    THEN Token(TokenTypes[1 + CHOOSE i \in MatchingRows(next_id) :
                               \A j \in MatchingRows(next_id) : i <= j], next_id)
    ELSE IF IsNumericLiteral(next_id) THEN Token("Number", next_id)
    ELSE IF IsBoolLiteral(next_id) THEN Token("Bool", next_id)
    ELSE IF IsIdentifierShape(next_id) THEN Token("Identifier", next_id)
    ELSE Token("Invalid", next_id)

\* A driver that returns the tokens without the closing token.
FinishTokensNoEof(toks) == toks

\* tokenize: the final EndOfFile token with empty value
FinishTokens(toks) == Append(toks, Token("EndOfFile", <<>>))

\* tokenize: classify each non-empty lexeme
PushLexeme(toks, id) ==
    IF id # <<>> THEN Append(toks, determine_token_type(id)) ELSE toks

(***************************************************************************)
(* Source texts.                                                           *)
(***************************************************************************)
LexAlphabet == {"a", "5", "-", " ", TAB, "(", ")", "[", "]", DQ, "#", NL}

ExampleStatement ==
    <<"z","y","l","o"," ","x"," ","="," ","5"," ","o","v","e","r">>
ExampleComment ==
    <<"x"," ","="," ","1"," ","#"," ","s","e","t"," ","x"," ","o","v","e","r">>
ExampleUnterminated == <<DQ,"a","b","c">>

Sources ==
    SeqsUpTo(LexAlphabet, MaxLen)
        \cup {ExampleStatement, ExampleComment, ExampleUnterminated}

(***************************************************************************)
(* Specification of the lexer: tokenize(src) as a loop over                *)
(* extract_identifier.                                                     *)
(***************************************************************************)
ClsIdle == clexeme = <<>> /\ ctoken = Token("Invalid", <<>>) /\ cpc = "idle"
EscIdle == estr0 = <<>> /\ estr = <<>> /\ eops = <<>>
MemIdle ==
    /\ pointers = <<>> /\ live = {} /\ returned = <<>>
    /\ lastcount = 0 /\ ncreated = 0
    /\ cleared = FALSE /\ mop = "idle"
MainIdle ==
    /\ stdin0 = <<>> /\ stdin = <<>> /\ events = <<>> /\ userCommand = <<>>
    /\ initret = 0 /\ mpc = "idle" /\ exitcode = -1

LexIdle ==
    /\ src = <<>> /\ line = <<>> /\ prev = <<>> /\ lastid = <<>>
    /\ lexemes = <<>> /\ tokens = <<>> /\ thrown = FALSE /\ pc = "idle"

LexInit ==
    /\ src \in Sources
    /\ line = src
    /\ prev = <<>>
    /\ lastid = <<>>
    /\ lexemes = <<>>
    /\ tokens = <<>>
    /\ thrown = FALSE
    /\ pc = "scan"
    /\ ClsIdle /\ EscIdle /\ MemIdle /\ MainIdle

\* One iteration of tokenize's loop: a call of extract_identifier on the
\* remaining text and the classification of its result.
TokenizeStep ==
    /\ pc = "scan"
    /\ line # <<>>
    /\ LET r == extract_identifier(line, DefaultSeparator)
       IN  /\ prev' = line
           /\ lastid' = r.id
           /\ thrown' = r.thrown
           /\ line' = r.line
           /\ lexemes' = Append(lexemes, r.id)
           /\ tokens' = IF r.thrown THEN tokens ELSE PushLexeme(tokens, r.id)
           /\ pc' = IF r.thrown THEN "aborted" ELSE "scan"
    /\ UNCHANGED <<src, clsvars, escvars, memvars, mainvars>>

\* The source is exhausted: append EndOfFile and return.
TokenizeEnd ==
    /\ pc = "scan"
    /\ line = <<>>
    /\ tokens' = FinishTokens(tokens)
    /\ pc' = "done"
    /\ UNCHANGED <<src, line, prev, lastid, lexemes, thrown>>
    /\ UNCHANGED <<clsvars, escvars, memvars, mainvars>>

LexNext == TokenizeStep \/ TokenizeEnd

SpecLexer == LexInit /\ [][LexNext]_vars

\* Sources for the runs to completion: one character for each way the loop
\* of extract_identifier treats a character (content, skip character,
\* bracket, quote, comment marker, newline), and the example texts.
LiveAlphabet == {"a", " ", "(", DQ, "#", NL}

LiveSources ==
    SeqsUpTo(LiveAlphabet, MaxLen)
        \cup {ExampleStatement, ExampleComment, ExampleUnterminated,
              <<"-", "-", "5">>, <<"[", TAB, "]">>}

LexLiveInit ==
    /\ src \in LiveSources
    /\ line = src
    /\ prev = <<>>
    /\ lastid = <<>>
    /\ lexemes = <<>>
    /\ tokens = <<>>
    /\ thrown = FALSE
    /\ pc = "scan"
    /\ ClsIdle /\ EscIdle /\ MemIdle /\ MainIdle

\* tokenize runs to completion: it is a sequential loop, so a step that is
\* possible is eventually taken.
SpecLexerLive == LexLiveInit /\ [][LexNext]_vars /\ WF_vars(LexNext)

(***************************************************************************)
(* Specification of determine_token_type as a function of one lexeme.      *)
(***************************************************************************)
ClsAlphabet == {"a", "_", "1", "-", ".", "=", "+", " "}

TableSpellings ==
    UNION {{tk_identifiers[i][k] : k \in DOMAIN tk_identifiers[i]} :
              i \in DOMAIN tk_identifiers}

Lexemes ==
    TableSpellings
        \cup SeqsUpTo(ClsAlphabet, MaxLexeme)
        \cup {<<"t","r","u","e">>, <<"f","a","l","s","e">>}

ClsInit ==
    /\ clexeme \in Lexemes
    /\ ctoken = Token("Invalid", <<>>)
    /\ cpc = "call"
    /\ LexIdle /\ EscIdle /\ MemIdle /\ MainIdle

Classify ==
    /\ cpc = "call"
    /\ ctoken' = determine_token_type(clexeme)
    /\ cpc' = "returned"
    /\ UNCHANGED <<clexeme, lexvars, escvars, memvars, mainvars>>

ClsNext == Classify

SpecClassify == ClsInit /\ [][ClsNext]_vars

(***************************************************************************)
(* process_escape_characters / unprocess_escape_characters                 *)
(***************************************************************************)
\* A switch whose `t` case was copied from the `n` case.
ReplChrTabAsNewline(nextchr) ==
    CASE nextchr = "n" -> NL
      [] nextchr = "t" -> NL
      [] OTHER -> " "

\* char replchr = ' '; switch (nextchr) { case 'n': ... case 't': ... }
ReplChr(nextchr) ==
    CASE nextchr = "n" -> NL
      [] nextchr = "t" -> TAB
      [] OTHER -> " "

\* An erase one position early: it removes the replacement character
\* instead of the escaped letter.
EraseAtPrevious(s, idx) == SubSeq(s, 1, idx - 1) \o SubSeq(s, idx + 1, Len(s))

\* string.erase(string.begin() + idx), idx counted from 0
EraseAt(s, idx) == SubSeq(s, 1, idx) \o SubSeq(s, idx + 2, Len(s))

\* The loop with an extra `chridx++` after a replacement, as the loop of
\* unprocess_escape_characters has: the character after a decoded escape
\* is not examined.
RECURSIVE ProcessLoopSkipsNext(_, _)
ProcessLoopSkipsNext(string, chridx) ==
    IF ~(chridx < Len(string)) THEN string
    ELSE IF /\ string[chridx + 1] = BSL
            /\ chridx < Len(string) - 1
            /\ string[chridx + 2] \in {"n", "t"}
         THEN ProcessLoopSkipsNext(
                  SubSeq(string, 1, chridx)
                      \o << IF string[chridx + 2] = "n" THEN NL ELSE TAB >>
                      \o SubSeq(string, chridx + 3, Len(string)),
                  chridx + 2)
         ELSE ProcessLoopSkipsNext(string, chridx + 1)

\* The loop of process_escape_characters from index chridx (counted from 0).
RECURSIVE ProcessLoop(_, _)
ProcessLoop(string, chridx) ==
    IF ~(chridx < Len(string)) THEN string
    ELSE IF string[chridx + 1] = BSL /\ chridx < Len(string) - 1
         THEN LET replchr == ReplChr(string[chridx + 2])
              IN  IF replchr # " "
                  THEN ProcessLoop(
                           EraseAt([string EXCEPT ![chridx + 1] = replchr], chridx + 1),
                           chridx + 1)
                  ELSE ProcessLoop(string, chridx + 1)
         ELSE ProcessLoop(string, chridx + 1)

process_escape_characters(string) == ProcessLoop(string, 0)

\* A switch without the case for the tab.
InstStrNoTab(chr) ==
    CASE chr = NL -> <<BSL, "n">>
      [] OTHER -> <<>>

\* switch (chr) { case '\n': inststr = "\\n"; case '\t': inststr = "\\t"; }
InstStr(chr) ==
    CASE chr = NL -> <<BSL, "n">>
      [] chr = TAB -> <<BSL, "t">>
      [] OTHER -> <<>>

\* string.insert(idx, inststr), idx counted from 0
InsertAt(s, idx, inststr) ==
    SubSeq(s, 1, idx) \o inststr \o SubSeq(s, idx + 1, Len(s))

\* The loop of unprocess_escape_characters from index chridx (counted from 0).
RECURSIVE UnprocessLoop(_, _)
UnprocessLoop(string, chridx) ==
    IF ~(chridx < Len(string)) THEN string
    ELSE LET inststr == InstStr(string[chridx + 1])
         IN  IF inststr # <<>>
             THEN UnprocessLoop(InsertAt(EraseAt(string, chridx), chridx, inststr),
                                chridx + 2)
             ELSE UnprocessLoop(string, chridx + 1)

unprocess_escape_characters(string) == UnprocessLoop(string, 0)

EscAlphabet == {"a", BSL, "n", "t", NL, TAB}

EscInit ==
    /\ estr0 \in SeqsUpTo(EscAlphabet, MaxEsc)
    /\ estr = estr0
    /\ eops = <<>>
    /\ LexIdle /\ ClsIdle /\ MemIdle /\ MainIdle

Process ==
    /\ Len(eops) < MaxOps
    /\ estr' = process_escape_characters(estr)
    /\ eops' = Append(eops, "process")
    /\ UNCHANGED <<estr0, lexvars, clsvars, memvars, mainvars>>

Unprocess ==
    /\ Len(eops) < MaxOps
    /\ estr' = unprocess_escape_characters(estr)
    /\ eops' = Append(eops, "unprocess")
    /\ UNCHANGED <<estr0, lexvars, clsvars, memvars, mainvars>>

EscNext == Process \/ Unprocess

SpecEscape == EscInit /\ [][EscNext]_vars

(***************************************************************************)
(* zylo::Memory                                                            *)
(***************************************************************************)
Addresses == 1..NumAddr

\* A create() that records the pointer at the front of the list.
PushFront(vec, pointer) == <<pointer>> \o vec

\* A create() that forgets to record the pointer.
PushBackDropped(vec, pointer) == vec

\* pointers.push_back(pointer)
PushBack(vec, pointer) == Append(vec, pointer)

Range(s) == {s[i] : i \in DOMAIN s}

MemInit ==
    /\ pointers = <<>>
    /\ live = {}
    /\ returned = <<>>
    /\ lastcount = 0
    /\ ncreated = 0
    /\ cleared = FALSE
    /\ mop = "init"
    /\ LexIdle /\ ClsIdle /\ EscIdle /\ MainIdle

\* Type *create(): `new Type()` yields storage that is not in use; ncreated
\* counts the calls since the last clear, returned lists the pointers they
\* returned, cleared records that clear ran.
Create ==
    /\ Len(pointers) < MaxPointers
    /\ \E pointer \in Addresses \ live :
          /\ live' = live \cup {pointer}
          /\ pointers' = PushBack(pointers, pointer)
          /\ returned' = Append(returned, pointer)
    /\ ncreated' = ncreated + 1
    /\ mop' = "create"
    /\ UNCHANGED <<lastcount, cleared, lexvars, clsvars, escvars, mainvars>>

\* void clear(): release every tracked address, then empty the list.
Clear ==
    /\ live' = live \ Range(pointers)
    /\ pointers' = <<>>
    /\ returned' = <<>>
    /\ ncreated' = 0
    /\ cleared' = TRUE
    /\ mop' = "clear"
    /\ UNCHANGED <<lastcount, lexvars, clsvars, escvars, mainvars>>

\* int pointers_count() const
PointersCount ==
    /\ lastcount' = Len(pointers)
    /\ mop' = "count"
    /\ UNCHANGED <<pointers, live, returned, ncreated, cleared, lexvars, clsvars, escvars, mainvars>>

MemNext == Create \/ Clear \/ PointersCount

SpecMemory == MemInit /\ [][MemNext]_vars

(***************************************************************************)
(* zylo_terminal and main                                                  *)
(***************************************************************************)
DEFAULT_LANGUAGE_NAME == "Zylo"
ZYLO_VERSION == "1.0.0"
DefaultColor == "FOREGROUND_RED | FOREGROUND_GREEN | FOREGROUND_BLUE"

Event(kind, text, arg) == [kind |-> kind, text |-> text, arg |-> arg]

\* zylo_terminal::info()
InfoEvents ==
    << Event("color", "GREEN", <<>>),
       Event("stdout", DEFAULT_LANGUAGE_NAME, <<>>),
       Event("stdout", " ", <<>>),
       Event("stdout", ZYLO_VERSION, <<>>),
       Event("stdout", "endl", <<>>),
       Event("color", "WHITE", <<>>),
       Event("stdout", "Type 'exit' to quit the interpreter.", <<>>),
       Event("stdout", "endl", <<>>),
       Event("color", "WHITE", <<>>),
       Event("stdout", "Type 'help' for a list of available commands.", <<>>),
       Event("stdout", "endl", <<>>),
       Event("color", DefaultColor, <<>>) >>

\* Index of the first newline of the stream, 0 when there is none.
FirstNewline(stream) ==
    IF Contains(stream, NL)
    THEN CHOOSE i \in DOMAIN stream :
            stream[i] = NL /\ \A j \in 1..(i - 1) : stream[j] # NL
    ELSE 0

\* A line read that keeps the terminator in the returned text.
GetLineKeepsTerminator(stream) ==
    LET nl == FirstNewline(stream)
    IN  IF nl = 0 THEN [input |-> stream, rest |-> <<>>]
        ELSE [input |-> SubSeq(stream, 1, nl),
              rest |-> SubSeq(stream, nl + 1, Len(stream))]

\* std::getline(std::cin, input): the characters before the first newline
\* (which is extracted and dropped), or all that is left at end of input.
GetLine(stream) ==
    LET nl == FirstNewline(stream)
    IN  IF nl = 0 THEN [input |-> stream, rest |-> <<>>]
        ELSE [input |-> SubSeq(stream, 1, nl - 1),
              rest |-> SubSeq(stream, nl + 1, Len(stream))]

InputAlphabet == {"h", "i", NL}

MainInit ==
    /\ stdin0 \in SeqsUpTo(InputAlphabet, MaxInput)
    /\ stdin = stdin0
    /\ events = <<>>
    /\ userCommand = <<>>
    /\ initret = -1
    /\ mpc = "init"
    /\ exitcode = -1
    /\ LexIdle /\ ClsIdle /\ EscIdle /\ MemIdle

\* An init() that returns the status of system("cls"), which is not zero
\* where the shell knows no such command.
InitResultOfCls == IF "cls" \in {"clear"} THEN 0 ELSE 1

\* zylo_terminal::init: return 0;
InitResult == 0

\* zylo_terminal::init(), called from main
TerminalInit ==
    /\ mpc = "init"
    /\ events' = events
                   \o << Event("title", DEFAULT_LANGUAGE_NAME, <<>>),
                         Event("system", "cls", <<>>) >>
                   \o InfoEvents
    /\ initret' = InitResult
    /\ mpc' = "check"
    /\ UNCHANGED <<stdin0, stdin, userCommand, exitcode>>
    /\ UNCHANGED <<lexvars, clsvars, escvars, memvars>>

\* main: if (zylo_terminal::init() != 0) { std::cerr << ...; return 1; }
MainCheck ==
    /\ mpc = "check"
    /\ IF initret # 0
       THEN /\ events' = events
                           \o << Event("stderr", "Error initializing terminal.", <<>>),
                                 Event("stderr", "endl", <<>>) >>
            /\ exitcode' = 1
            /\ mpc' = "exited"
       ELSE /\ mpc' = "input"
            /\ UNCHANGED <<events, exitcode>>
    /\ UNCHANGED <<stdin0, stdin, userCommand, initret>>
    /\ UNCHANGED <<lexvars, clsvars, escvars, memvars>>

\* zylo_terminal::input(">>> "), called from main
TerminalInput ==
    /\ mpc = "input"
    /\ LET got == GetLine(stdin)
       IN  /\ events' = events
                          \o << Event("stdout", ">>> ", <<>>),
                                Event("color", DefaultColor, <<>>),
                                Event("getline", "stdin", got.input) >>
           /\ stdin' = got.rest
           /\ userCommand' = got.input
    /\ mpc' = "echo"
    /\ UNCHANGED <<stdin0, initret, exitcode>>
    /\ UNCHANGED <<lexvars, clsvars, escvars, memvars>>

\* main: std::cout << "You entered: " << userCommand << std::endl; return 0;
MainEcho ==
    /\ mpc = "echo"
    /\ events' = events
                   \o << Event("stdout", "You entered: ", <<>>),
                         Event("stdout", "userCommand", userCommand),
                         Event("stdout", "endl", <<>>) >>
    /\ exitcode' = 0
    /\ mpc' = "exited"
    /\ UNCHANGED <<stdin0, stdin, userCommand, initret>>
    /\ UNCHANGED <<lexvars, clsvars, escvars, memvars>>

MainNext == TerminalInit \/ MainCheck \/ TerminalInput \/ MainEcho

\* main runs to its return: every statement completes, and the blocking
\* line read returns on a full line or at end of input.
SpecMainLive == MainInit /\ [][MainNext]_vars /\ WF_vars(MainNext)

SpecMain == MainInit /\ [][MainNext]_vars

(***************************************************************************)
(* Properties of the lexer (SpecLexer, SpecClassify).                      *)
(***************************************************************************)
Called == Len(lexemes) > 0

\* C1: tokenizing `zylo x = 5 over` yields exactly Var("zylo"),
\* Identifier("x"), Equals("="), Number("5"), EndStatement("over"),
\* EndOfFile(""), in this order.
C1_StatementTokens ==
    (pc = "done" /\ src = ExampleStatement) =>
        tokens = << Token("Var", <<"z","y","l","o">>),
                    Token("Identifier", <<"x">>),
                    Token("Equals", <<"=">>),
                    Token("Number", <<"5">>),
                    Token("EndStatement", <<"o","v","e","r">>),
                    Token("EndOfFile", <<>>) >>

\* C2: the sequence returned by tokenize ends with an EndOfFile token whose
\* value is empty and holds no other EndOfFile token; for the empty source
\* it is exactly that one token.
C2_EndOfFileLast ==
    pc = "done" =>
        /\ Len(tokens) >= 1
        /\ tokens[Len(tokens)] = Token("EndOfFile", <<>>)
        /\ \A k \in 1..(Len(tokens) - 1) : tokens[k].type # "EndOfFile"
        /\ (src = <<>> => tokens = << Token("EndOfFile", <<>>) >>)

C2_Witness ==
    /\ pc = "done"
    /\ src # <<>>
    /\ Len(tokens) >= 3
    /\ tokens[Len(tokens)].type = "EndOfFile"

AfterFirstNewline(ln) ==
    IF FirstNewline(ln) = 0 THEN <<>>
    ELSE SubSeq(ln, FirstNewline(ln) + 1, Len(ln))

\* C4: a `#` met outside a string with nothing accumulated is consumed
\* together with every character up to and including the next newline and
\* none of them is returned; tokenizing `x = 1 # set x over` yields only
\* Identifier(x), Equals(=), Number(1), EndOfFile.
C4_CommentElided ==
    /\ (Called /\ ~Contains(src, DQ) /\ FirstOf(prev) = "#") =>
           (lastid = <<>> /\ line = AfterFirstNewline(prev))
    /\ (pc = "done" /\ src = ExampleComment) =>
           tokens = << Token("Identifier", <<"x">>),
                       Token("Equals", <<"=">>),
                       Token("Number", <<"1">>),
                       Token("EndOfFile", <<>>) >>

\* C5: for a source that opens a double-quoted string and never closes it,
\* the first scan consumes every character, raises nothing, leaves line
\* empty, and the lexeme carries the characters after the opening quote.
C5_UnterminatedString ==
    ( /\ Len(lexemes) = 1
      /\ Len(src) >= 2
      /\ src[1] = DQ
      /\ ~Contains(Tail(src), DQ) ) =>
        /\ ~thrown
        /\ line = <<>>
        /\ IsInfix(Tail(src), lastid)

\* C8: when the whole remaining line is one of ( ) [ ], extract_identifier
\* returns that character and leaves line empty.
C8_LoneBracket ==
    (Called /\ prev \in {<<"(">>, <<")">>, <<"[">>, <<"]">>}) =>
        (lastid = prev /\ line = <<>> /\ ~thrown)

C8_Witness ==
    /\ Len(lexemes) >= 2
    /\ prev = <<"]">>
    /\ lastid = <<"]">>
    /\ line = <<>>

\* C10: identifiers are the runs of characters between separators: with the
\* default separator a returned identifier never contains a space, and for
\* a line `a<sep>b` the first call returns `a`.
C10_SeparatedIdentifier ==
    Called =>
        /\ ~Contains(lastid, DefaultSeparator)
        /\ \A k \in 2..(Len(prev) - 1) :
              ( /\ prev[k] = DefaultSeparator
                /\ \A j \in 1..(k - 1) : prev[j] = "a"
                /\ prev[k + 1] = "a" ) =>
                  lastid = SubSeq(prev, 1, k - 1)

\* The length of the longest prefix of ln whose characters all satisfy P.
PrefixLen(ln, P(_)) ==
    CHOOSE k \in 0..Len(ln) :
        /\ \A j \in 1..k : P(ln[j])
        /\ (k = Len(ln) \/ ~P(ln[k + 1]))

IsAlphaChr(c) == determineidtype(c) = "Alpha"

\* C13: the spaces, tabs and NULs before the first content character are
\* removed from line and are not part of the returned lexeme; outside
\* string capture a returned lexeme holds no space, tab or NUL.
C13_LeadingSkipDropped ==
    (Called /\ ~Contains(src, DQ)) =>
        /\ Len(prev) - Len(line) >= PrefixLen(prev, isskpchr)
        /\ \A i \in DOMAIN lastid : ~isskpchr(lastid[i])

\* C14: for a line that begins with a non-empty run of letters and
\* underscores followed by a space or the end of the line, the call returns
\* exactly that run and line is the original line without it.
C14_AlphaRunReturned ==
    LET n == PrefixLen(prev, IsAlphaChr)
    IN  (Called /\ n >= 1 /\ (n = Len(prev) \/ prev[n + 1] = " ")) =>
            /\ lastid = SubSeq(prev, 1, n)
            /\ line = SubSeq(prev, n + 1, Len(prev))

HasBracket(id) == \E i \in DOMAIN id : isunchainablechr(id[i])

\* The characters of the lexemes that hold a bracket, in order of return.
RECURSIVE BracketLexemeChars(_)
BracketLexemeChars(ids) ==
    IF ids = <<>> THEN <<>>
    ELSE (IF HasBracket(Head(ids)) THEN Head(ids) ELSE <<>>)
             \o BracketLexemeChars(Tail(ids))

\* C15: a returned lexeme that holds one of ( ) [ ] is exactly that one
\* character, and once line is exhausted every occurrence of ( ) [ ] in the
\* source has been returned exactly once as its own lexeme, in source order.
C15_BracketsStandAlone ==
    /\ \A k \in DOMAIN lexemes : HasBracket(lexemes[k]) => Len(lexemes[k]) = 1
    /\ pc = "done" =>
          BracketLexemeChars(lexemes) = SelectSeq(src, isunchainablechr)

C15_Witness ==
    /\ pc = "done"
    /\ src = <<"a", "(", "]">>
    /\ lexemes = << <<>>, <<"(">>, <<"]">> >>

\* C16: for a line that begins with `--`, whatever follows, the call
\* returns exactly `--` and removes exactly those two characters from line.
C16_DoubleMinusUnit ==
    (Called /\ Len(prev) >= 2 /\ prev[1] = "-" /\ prev[2] = "-") =>
        /\ lastid = <<"-", "-">>
        /\ line = SubSeq(prev, 3, Len(prev))

IsQuoteChr(c) == c = DQ
IsNotQuoteChr(c) == c # DQ

\* C17: for a line whose first content character is a double quote that is
\* closed by a second one, the call accumulates the characters between the
\* quotes verbatim, the consumed prefix ends right after the closing quote
\* and line is the text that followed it.
C17_StringCaptured ==
    LET open == PrefixLen(prev, isskpchr) + 1
        inner == SubSeq(prev, open + 1, Len(prev))
        close == open + PrefixLen(inner, IsNotQuoteChr) + 1
    IN  ( /\ Called
          /\ open <= Len(prev)
          /\ prev[open] = DQ
          /\ close <= Len(prev) ) =>
            /\ ~thrown
            /\ IsInfix(SubSeq(prev, open + 1, close - 1), lastid)
            /\ line = SubSeq(prev, close + 1, Len(prev))

\* C18: the call returns the empty lexeme only when it found no content
\* before the input was exhausted: an empty lexeme comes with an empty line.
C18_EmptyLexemeAtEnd ==
    (Called /\ lastid = <<>>) => line = <<>>

\* C21: every call of extract_identifier on a non-empty line removes at
\* least one character from line, never throws, and so the driver makes at
\* most as many calls as the source has characters and reaches its end.
C21_ProgressAndTermination ==
    /\ [][TokenizeStep => (~thrown' /\ Len(line') < Len(line))]_vars
    /\ [](Len(lexemes) <= Len(src))
    /\ <>(pc = "done")

\* A finished run that needed one call per character of the source.
C21_Witness ==
    /\ pc = "done"
    /\ Len(src) = MaxLen
    /\ Len(lexemes) = Len(src)
    /\ line = <<>>

\* The characters the last call removed from the front of the line.
RemovedPrefix == SubSeq(prev, 1, Len(prev) - Len(line))

\* C22: the index computed by extract_identifier never exceeds the length
\* of line, so line.substr does not throw; line after the call is a suffix
\* of line before it and the returned lexeme is a contiguous block of the
\* removed prefix.
C22_IndexWithinLine ==
    Called =>
        /\ extract_identifier(prev, DefaultSeparator).nextidend <= Len(prev)
        /\ ~thrown
        /\ Len(line) <= Len(prev)
        /\ line = SubSeq(prev, Len(prev) - Len(line) + 1, Len(prev))
        /\ IsInfix(lastid, RemovedPrefix)

\* A call that removed more than it returned and left text behind it, on a
\* line that holds a double quote.
C22_Witness ==
    /\ Called
    /\ lastid # <<>>
    /\ Len(lastid) < Len(RemovedPrefix)
    /\ line # <<>>
    /\ Contains(prev, DQ)

\* No spelling occupies two places of the table, in one row or in two.
NoSpellingTwice ==
    \A i \in DOMAIN tk_identifiers, j \in DOMAIN tk_identifiers :
        \A k \in DOMAIN tk_identifiers[i], l \in DOMAIN tk_identifiers[j] :
            tk_identifiers[i][k] = tk_identifiers[j][l] => (i = j /\ k = l)

\* The table has exactly one row for each token type declared before Invalid.
OneRowPerType ==
    /\ DOMAIN tk_identifiers =
           {TypeIndex(TokenTypes[n]) : n \in {m \in DOMAIN TokenTypes : TokenTypes[m] # "Invalid"}}
    /\ Cardinality(DOMAIN tk_identifiers) = Len(TokenTypes) - 1

EmptyRowTypes == {"Number", "Bool", "String", "Identifier", "EndOfFile"}

\* The types an exact-match lookup of the lexeme can yield, whatever the
\* order in which the rows are searched.
LookupTypes(lexeme) ==
    {TokenTypes[i + 1] :
        i \in {j \in DOMAIN tk_identifiers :
                  \E k \in DOMAIN tk_identifiers[j] : tk_identifiers[j][k] = lexeme}}

\* C23: no spelling of the table is listed twice (under one type or under
\* two), so an exact-match lookup yields at most one type for any lexeme;
\* the table has one row per token type before Invalid and the rows of
\* Number, Bool, String, Identifier and EndOfFile are empty.
C23_TableUnambiguous ==
    /\ NoSpellingTwice
    /\ OneRowPerType
    /\ \A t \in EmptyRowTypes : tk_identifiers[TypeIndex(t)] = <<>>
    /\ Cardinality(LookupTypes(clexeme)) <= 1
    /\ (cpc = "returned" /\ LookupTypes(clexeme) # {})
           => LookupTypes(clexeme) = {ctoken.type}

\* `--` has been looked up: only the UnaryOperator row spells it, although
\* the BinaryOperator row spells its prefix `-`.
C23_Witness ==
    /\ cpc = "returned"
    /\ clexeme = <<"-","-">>
    /\ LookupTypes(clexeme) = {"UnaryOperator"}
    /\ ctoken.type = "UnaryOperator"
    /\ LookupTypes(<<"-">>) = {"BinaryOperator"}

(***************************************************************************)
(* Properties of the escape transforms (SpecEscape).                       *)
(***************************************************************************)
\* Ordinary characters and the escapes backslash-n and backslash-t only.
EscapedText(s) ==
    /\ ~Contains(s, NL)
    /\ ~Contains(s, TAB)
    /\ \A i \in DOMAIN s :
          s[i] = BSL => (i < Len(s) /\ s[i + 1] \in {"n", "t"})

\* C6: process_escape_characters followed by unprocess_escape_characters
\* returns the original string when it is made of ordinary characters and
\* the escapes backslash-n and backslash-t.
C6_RoundTrip ==
    (eops = <<"process", "unprocess">> /\ EscapedText(estr0)) => estr = estr0

C6_Witness ==
    /\ eops = <<"process", "unprocess">>
    /\ estr0 = <<BSL, "t", BSL, "n">>
    /\ estr = estr0

\* One left-to-right pass over the text: a backslash followed by `n` or `t`
\* becomes a newline or a tab, any other character is copied.
RECURSIVE EscapePass(_)
EscapePass(s) ==
    IF s = <<>> THEN <<>>
    ELSE IF s[1] = BSL /\ Len(s) >= 2 /\ s[2] = "n"
    THEN <<NL>> \o EscapePass(SubSeq(s, 3, Len(s)))
    ELSE IF s[1] = BSL /\ Len(s) >= 2 /\ s[2] = "t"
    THEN <<TAB>> \o EscapePass(SubSeq(s, 3, Len(s)))
    ELSE <<s[1]>> \o EscapePass(Tail(s))

\* The backslashes that are not last and are followed by `n` or `t`.
NumEscapes(s) ==
    Cardinality({i \in DOMAIN s :
                    s[i] = BSL /\ i < Len(s) /\ s[i + 1] \in {"n", "t"}})

\* C11: process_escape_characters is one left-to-right pass that replaces
\* each backslash followed by `n` (or `t`) by a newline (or a tab); the
\* result is shorter by the number of replaced escapes and every other
\* character, a trailing backslash included, is unchanged and in order.
C11_ProcessIsEscapePass ==
    eops = <<"process">> =>
        /\ estr = EscapePass(estr0)
        /\ Len(estr) = Len(estr0) - NumEscapes(estr0)

C11_Witness ==
    /\ eops = <<"process">>
    /\ estr0 = <<BSL, BSL, "n", BSL>>
    /\ estr = <<BSL, NL, BSL>>

\* Every newline spelled backslash-n and every tab backslash-t, character
\* by character.
RECURSIVE SpellEscapes(_)
SpellEscapes(s) ==
    IF s = <<>> THEN <<>>
    ELSE (IF s[1] = NL THEN <<BSL, "n">>
          ELSE IF s[1] = TAB THEN <<BSL, "t">>
          ELSE <<s[1]>>) \o SpellEscapes(Tail(s))

NumControls(s) == Cardinality({i \in DOMAIN s : s[i] \in {NL, TAB}})

\* C12: unprocess_escape_characters replaces every literal newline by
\* backslash-n and every literal tab by backslash-t and nothing else: the
\* result holds no newline or tab, is longer by the number of newlines and
\* tabs of the input, and keeps all other characters in order.
C12_UnprocessSpellsEscapes ==
    eops = <<"unprocess">> =>
        /\ estr = SpellEscapes(estr0)
        /\ ~Contains(estr, NL)
        /\ ~Contains(estr, TAB)
        /\ Len(estr) = Len(estr0) + NumControls(estr0)

C12_Witness ==
    /\ eops = <<"unprocess">>
    /\ estr0 = <<TAB, NL, "a", NL>>
    /\ estr = <<BSL, "t", BSL, "n", "a", BSL, "n">>

\* A backslash immediately followed by `n` or `t`.
HasEscape(s) ==
    \E i \in 1..(Len(s) - 1) : s[i] = BSL /\ s[i + 1] \in {"n", "t"}

\* C24: the result of process_escape_characters holds no backslash
\* immediately followed by `n` or `t`, and applying the function to it
\* again changes nothing.
C24_ProcessIdempotent ==
    /\ (eops # <<>> /\ eops[Len(eops)] = "process") =>
           /\ ~HasEscape(estr)
           /\ process_escape_characters(estr) = estr
    /\ eops = <<"process", "process">> =>
           estr = process_escape_characters(estr0)

\* Two applications to `\\nn`: the first decodes the escape that follows the
\* leading backslash, leaving a backslash, a newline and an `n`.
C24_Witness ==
    /\ eops = <<"process", "process">>
    /\ estr0 = <<BSL, BSL, "n", "n">>
    /\ estr = <<BSL, NL, "n">>

(***************************************************************************)
(* Properties of the memory tracker (SpecMemory).                          *)
(***************************************************************************)
\* C7: pointers_count returns the number of create calls since the tracker
\* was constructed or last cleared: N after N creates, 0 after clear, k
\* after k further creates.
C7_CountIsCreates ==
    mop = "count" => lastcount = ncreated

C7_Witness ==
    /\ mop = "count"
    /\ cleared
    /\ ncreated = 2
    /\ lastcount = 2

\* C19: every pointer returned by create since the last clear is in the
\* tracked list exactly once and in creation order; create only appends and
\* pointers_count leaves the list unchanged.
C19_TrackedInCreationOrder ==
    /\ [](/\ pointers = returned
          /\ \A i, j \in DOMAIN pointers : pointers[i] = pointers[j] => i = j)
    /\ [][/\ mop' = "create" =>
                \E pointer \in Addresses : pointers' = Append(pointers, pointer)
          /\ mop' = "count" => pointers' = pointers]_vars

C19_Witness ==
    /\ mop = "count"
    /\ cleared
    /\ Len(returned) = 3
    /\ pointers = returned

(***************************************************************************)
(* Properties of the entry point (SpecMain).                               *)
(***************************************************************************)
IsVisible(e) == e.kind # "color"
IsRead(e) == e.kind = "getline"
IsPrompt(e) == e.kind = "stdout" /\ e.text = ">>> "

\* The input line: the longest prefix of the stream without a newline.
InputLine(stream) ==
    LET n == CHOOSE k \in 0..Len(stream) :
                 /\ \A j \in 1..k : stream[j] # NL
                 /\ (k = Len(stream) \/ stream[k + 1] = NL)
    IN  SubSeq(stream, 1, n)

ExpectedRun(L) ==
    << Event("title", "Zylo", <<>>),
       Event("system", "cls", <<>>),
       Event("stdout", "Zylo", <<>>),
       Event("stdout", " ", <<>>),
       Event("stdout", "1.0.0", <<>>),
       Event("stdout", "endl", <<>>),
       Event("stdout", "Type 'exit' to quit the interpreter.", <<>>),
       Event("stdout", "endl", <<>>),
       Event("stdout", "Type 'help' for a list of available commands.", <<>>),
       Event("stdout", "endl", <<>>),
       Event("stdout", ">>> ", <<>>),
       Event("getline", "stdin", L),
       Event("stdout", "You entered: ", <<>>),
       Event("stdout", "userCommand", L),
       Event("stdout", "endl", <<>>) >>

\* C9: a run sets the title, clears the screen, prints the banner, prompts
\* `>>> `, reads exactly one line L, prints `You entered: L`, and exits with
\* status 0 without prompting or reading again.
C9_SingleShotRun ==
    /\ Len(SelectSeq(events, IsRead)) <= 1
    /\ Len(SelectSeq(events, IsPrompt)) <= 1
    /\ mpc = "exited" =>
          /\ SelectSeq(events, IsVisible) = ExpectedRun(InputLine(stdin0))
          /\ exitcode = 0
          /\ ~ENABLED MainNext

C9_Witness ==
    /\ mpc = "exited"
    /\ stdin0 = <<"h", "i", NL, "h">>
    /\ userCommand = <<"h", "i">>
    /\ stdin = <<"h">>
    /\ exitcode = 0

IsErrorOutput(e) == e.kind = "stderr"

\* C20: zylo_terminal::init returns 0 on every call, so no run takes the
\* failure branch (message on the error stream, exit status 1) and every
\* run reaches the prompt.
C20_InitNeverFails ==
    /\ [](/\ mpc # "init" => initret = 0
          /\ Len(SelectSeq(events, IsErrorOutput)) = 0
          /\ exitcode # 1)
    /\ <>(Len(SelectSeq(events, IsPrompt)) = 1)

C20_Witness ==
    /\ mpc = "exited"
    /\ initret = 0
    /\ exitcode = 0
    /\ Len(SelectSeq(events, IsPrompt)) = 1
    /\ stdin0 = <<>>

====
